---- MODULE Spec2Model ----
(***************************************************************************)
(* URL shortener: two AWS Lambda handlers sharing one DynamoDB table.      *)
(*   create_short_url.py  POST /shorten      (conditional put, 5 attempts) *)
(*   redirect_url.py      GET /{short_code}  (get_item, 301 / 404)         *)
(* Strings are sequences of one-character strings, so that strip() and     *)
(* startswith() are computed as Python computes them.                      *)
(***************************************************************************)
EXTENDS Integers, Sequences, FiniteSets, TLC

\* ---------------------------------------------------------------- bounds
\* number of create requests
MaxCreates == 2
\* number of distinct outcomes of the random source
NumDraws == 2
\* seconds the clock may run past the time-to-live
MaxSkew == 1

\* ------------------------------------------------------ program constants
\* string.ascii_letters + string.digits
ALPHABET ==
  << "a","b","c","d","e","f","g","h","i","j","k","l","m",
     "n","o","p","q","r","s","t","u","v","w","x","y","z",
     "A","B","C","D","E","F","G","H","I","J","K","L","M",
     "N","O","P","Q","R","S","T","U","V","W","X","Y","Z",
     "0","1","2","3","4","5","6","7","8","9" >>

CODE_LENGTH == 8

\* a loop bound off by one: range(6)
MAX_ATTEMPTS_off_by_one == 5 + 1

\* for _ in range(5)
MAX_ATTEMPTS == 5

\* 60 * 60 * 24 * 90
TTL_SECONDS == 60 * 60 * 24 * 90

CONDITIONAL_CHECK_FAILED == "ConditionalCheckFailedException"

\* error codes of a botocore ClientError other than the conditional check
OtherStoreErrors == {"ProvisionedThroughputExceededException"}

NoError == "none"

\* ------------------------------------------------------- string helpers
WHITESPACE == {" ", "\t", "\n"}

RECURSIVE lstrip(_)
lstrip(s) ==
  IF s # <<>> /\ Head(s) \in WHITESPACE THEN lstrip(Tail(s)) ELSE s

RECURSIVE rstrip(_)
rstrip(s) ==
  IF s # <<>> /\ s[Len(s)] \in WHITESPACE
  THEN rstrip(SubSeq(s, 1, Len(s) - 1))
  ELSE s

\* str.strip()
strip(s) == rstrip(lstrip(s))

\* str.startswith(prefix)
startswith(s, prefix) ==
  /\ Len(s) >= Len(prefix)
  /\ SubSeq(s, 1, Len(prefix)) = prefix

HTTP_PREFIX == << "h","t","t","p",":","/","/" >>
HTTPS_PREFIX == << "h","t","t","p","s",":","/","/" >>

\* long_url.startswith(("http://", "https://"))
HasUrlPrefix(s) == startswith(s, HTTP_PREFIX) \/ startswith(s, HTTPS_PREFIX)

\* ------------------------------------------------------- code generator
\* the outcomes of CODE_LENGTH calls of secrets.choice: indices into ALPHABET
RandomDraws ==
  { [i \in 1..CODE_LENGTH |-> ((k * i + 11 * (k - 1)) % Len(ALPHABET)) + 1]
      : k \in 1..NumDraws }

\* a generator that stops one character early: range(CODE_LENGTH - 1)
generate_short_code_short(draw) ==
  [i \in 1..(CODE_LENGTH - 1) |-> ALPHABET[draw[i]]]

\* "".join(secrets.choice(ALPHABET) for _ in range(CODE_LENGTH))
generate_short_code(draw) == [i \in 1..CODE_LENGTH |-> ALPHABET[draw[i]]]

Codes == { generate_short_code(d) : d \in RandomDraws }

\* ------------------------------------------------------------- inputs
\* "http://a"
URL_HTTP == << "h","t","t","p",":","/","/","a" >>
\* "https://b"
URL_HTTPS == << "h","t","t","p","s",":","/","/","b" >>
\* " https://b\n"
URL_PADDED == << " " >> \o URL_HTTPS \o << "\n" >>
\* "ftp://x.com"
URL_FTP == << "f","t","p",":","/","/","x",".","c","o","m" >>
\* "HTTP://a"
URL_UPPER == << "H","T","T","P",":","/","/","a" >>
\* " \t"
URL_BLANK == << " ", "\t" >>

\* A JSON value as json.loads returns it: its Python type, whether it is a
\* dict holding the key "long_url", the type of that member and, when the
\* member is a str, its text.
JsonValue(type, has, vtype, text) ==
  [type |-> type, has |-> has, vtype |-> vtype, text |-> text]

EmptyObject == JsonValue("dict", FALSE, "none", <<>>)

ObjectWith(vtype, text) == JsonValue("dict", TRUE, vtype, text)

\* event["body"]: missing or None ("none"), the empty string ("empty"), text
\* that is no JSON document ("garbage"), or the text of the JSON value doc
EventBody(raw, doc) == [raw |-> raw, doc |-> doc]

Bodies ==
  { EventBody("none", EmptyObject),
    EventBody("empty", EmptyObject),
    EventBody("garbage", EmptyObject),
    EventBody("json", EmptyObject),
    EventBody("json", JsonValue("list", FALSE, "none", <<>>)),
    EventBody("json", JsonValue("str", FALSE, "none", <<>>)),
    EventBody("json", JsonValue("int", FALSE, "none", <<>>)),
    EventBody("json", JsonValue("NoneType", FALSE, "none", <<>>)),
    EventBody("json", ObjectWith("int", <<>>)),
    EventBody("json", ObjectWith("NoneType", <<>>)),
    EventBody("json", ObjectWith("list", <<>>)),
    EventBody("json", ObjectWith("str", <<>>)),
    EventBody("json", ObjectWith("str", URL_BLANK)),
    EventBody("json", ObjectWith("str", URL_FTP)),
    EventBody("json", ObjectWith("str", URL_UPPER)),
    EventBody("json", ObjectWith("str", URL_HTTP)),
    EventBody("json", ObjectWith("str", URL_PADDED)) }

\* ------------------------------------------------- create: parse, validate
\* json.loads(event.get("body") or "{}"): the value, or JSONDecodeError
json_loads(body) ==
  IF body.raw \in {"none", "empty"} THEN [ok |-> TRUE, value |-> EmptyObject]
  ELSE IF body.raw = "garbage" THEN [ok |-> FALSE, value |-> EmptyObject]
  ELSE [ok |-> TRUE, value |-> body.doc]

\* body.get("long_url", ""): only a dict has .get (else AttributeError)
body_get(value) ==
  IF value.type # "dict" THEN [raised |-> TRUE, vtype |-> "none", text |-> <<>>]
  ELSE IF value.has THEN [raised |-> FALSE, vtype |-> value.vtype, text |-> value.text]
  ELSE [raised |-> FALSE, vtype |-> "str", text |-> <<>>]

ERR_JSON == "Request body must be valid JSON"
ERR_REQUIRED == "long_url is required"
ERR_PREFIX == "long_url must start with http:// or https://"
ERR_DATABASE == "Database error"
ERR_EXHAUSTED == "Could not generate a unique short code. Try again."

\* a validation without the startswith test of line 45: every long_url that
\* is not empty passes
Validate_no_prefix_check(body) ==
  LET parsed == json_loads(body)
      got == body_get(parsed.value)
      url == strip(got.text)
  IN  IF ~parsed.ok
        THEN [outcome |-> "return", error |-> ERR_JSON, long_url |-> <<>>]
      ELSE IF got.raised \/ got.vtype # "str"
        THEN [outcome |-> "raise", error |-> "AttributeError", long_url |-> <<>>]
      ELSE IF url = <<>>
        THEN [outcome |-> "return", error |-> ERR_REQUIRED, long_url |-> <<>>]
      ELSE [outcome |-> "pass", error |-> NoError, long_url |-> url]

\* Lines 35-46 of the create handler: "raise" is an exception that leaves the
\* handler, "return" a 400 response, "pass" a validated long_url.
Validate(body) ==
  LET parsed == json_loads(body)
      got == body_get(parsed.value)
      url == strip(got.text)
  IN  IF ~parsed.ok
        THEN [outcome |-> "return", error |-> ERR_JSON, long_url |-> <<>>]
      ELSE IF got.raised \/ got.vtype # "str"
        THEN [outcome |-> "raise", error |-> "AttributeError", long_url |-> <<>>]
      ELSE IF url = <<>>
        THEN [outcome |-> "return", error |-> ERR_REQUIRED, long_url |-> <<>>]
      ELSE IF ~HasUrlPrefix(url)
        THEN [outcome |-> "return", error |-> ERR_PREFIX, long_url |-> <<>>]
      ELSE [outcome |-> "pass", error |-> NoError, long_url |-> url]

\* ------------------------------------------------------------- the store
\* put_item without its ConditionExpression: an existing item is replaced
put_item_unconditional(tbl, item, fault) ==
  IF fault # NoError THEN [error |-> fault, table |-> tbl]
  ELSE [error |-> NoError,
        table |-> (item.short_code :> item) @@ tbl]

\* a failed condition that is not reported: the put is dropped silently
put_item_silent(tbl, item, fault) ==
  IF fault # NoError THEN [error |-> fault, table |-> tbl]
  ELSE IF item.short_code \in DOMAIN tbl THEN [error |-> NoError, table |-> tbl]
  ELSE [error |-> NoError, table |-> (item.short_code :> item) @@ tbl]

\* put_item(Item=..., ConditionExpression="attribute_not_exists(short_code)")
\* fault: the error code of a ClientError the service answers with, or NoError
put_item(tbl, item, fault) ==
  IF fault # NoError THEN [error |-> fault, table |-> tbl]
  ELSE IF item.short_code \in DOMAIN tbl
    THEN [error |-> CONDITIONAL_CHECK_FAILED, table |-> tbl]
  ELSE [error |-> NoError, table |-> (item.short_code :> item) @@ tbl]

\* get_item(Key={"short_code": key}); result.get("Item")
get_item(tbl, key, fault) ==
  IF fault # NoError THEN [error |-> fault, found |-> FALSE, key |-> key]
  ELSE [error |-> NoError, found |-> key \in DOMAIN tbl, key |-> key]

\* -------------------------------------------------------------- state
VARIABLES
  store,         \* the table: short_code -> item
  now,           \* int(time.time())
  pc,            \* create request -> "idle", "put", "returned", "raised"
  long_url,      \* create request -> its validated long_url
  short_code,    \* create request -> the candidate of the current attempt
  attempt,       \* create request -> iterations of the loop begun so far
                 \* (the locals are dropped when the handler returns)
  resp,          \* create request -> its response
  raced,         \* create requests whose current candidate another request
                 \* inserted while they held it
  evicted,       \* create requests whose record expiry has removed
  lastRedirect,  \* the latest redirect request and its response
  event,         \* event["body"] of the latest create request
  requested,     \* create request -> the long_url its body carried, once
                 \* the request has passed validation
  lastError      \* create request -> error code of its latest put_item call

vars ==
  << store, now, pc, long_url, short_code, attempt, resp, raced, evicted,
     lastRedirect, event, requested, lastError >>

CreateReqs == 1..MaxCreates

MaxClock == TTL_SECONDS + MaxSkew

\* The clock runs at most MaxSkew seconds past 0 and past the time-to-live.
CanAdvance(d) ==
  /\ now + d <= MaxClock
  /\ d < TTL_SECONDS => (now % TTL_SECONDS) + d <= MaxSkew

\* _response(status_code, body) of the create handler; the short_url of a 201
\* is BASE_URL, "/" and the short_code
CreateResponse(status, error, code, url) ==
  [statusCode |-> status, error |-> error, short_code |-> code, long_url |-> url]

NoResponse == CreateResponse(0, NoError, <<>>, <<>>)

\* the redirect handler's response, with the request it answers, the error
\* code of the ClientError its get_item call raised, if it made one, and the
\* calls the handler made on the table, in order
RedirectResponse(path, status, location, error, calls) ==
  [path |-> path, statusCode |-> status, Location |-> location,
   readError |-> error, calls |-> calls]

\* the handler returns before it reaches the table
NO_CALLS == << >>

\* table.get_item(...) at line 26, the handler's only call on the table
ONE_READ == << "get_item" >>

\* event["pathParameters"]: None, or a dict that may hold "short_code"
PathParams(has, code) == [has |-> has, short_code |-> code]

\* a code of the alphabet that the bounded random source never draws
UNKNOWN_CODE == [i \in 1..CODE_LENGTH |-> "Z"]

RedirectInputs ==
  { PathParams(FALSE, <<>>), PathParams(TRUE, <<>>), PathParams(TRUE, << " " >>),
    PathParams(TRUE, UNKNOWN_CODE) }
  \cup { PathParams(TRUE, c) : c \in Codes }
  \cup { PathParams(TRUE, << " " >> \o c \o << "\n" >>) : c \in Codes }

\* The Item of lines 57-62: time.time() is read twice, t1 then t2.
NewItem(code, url, t1, t2) ==
  [short_code |-> code, long_url |-> url, created_at |-> t1,
   expires_at |-> t2 + TTL_SECONDS]

\* the code of a record written before the requests followed here; the
\* random source can draw it again
EARLIER_CODE == generate_short_code([i \in 1..CODE_LENGTH |-> i + 1])

\* The table outlives the requests: it is empty, or holds the record of a
\* request served earlier.
InitialStores ==
  { << >>, (EARLIER_CODE :> NewItem(EARLIER_CODE, URL_HTTP, 0, 0)) }

Init ==
  /\ store \in InitialStores
  /\ now = 0
  /\ pc = [p \in CreateReqs |-> "idle"]
  /\ long_url = [p \in CreateReqs |-> <<>>]
  /\ short_code = [p \in CreateReqs |-> <<>>]
  /\ attempt = [p \in CreateReqs |-> 0]
  /\ resp = [p \in CreateReqs |-> NoResponse]
  /\ raced = {}
  /\ evicted = {}
  /\ lastRedirect = RedirectResponse(PathParams(FALSE, <<>>), 0, <<>>, NoError, NO_CALLS)
  /\ event = EventBody("none", EmptyObject)
  /\ requested = [p \in CreateReqs |-> <<>>]
  /\ lastError = [p \in CreateReqs |-> NoError]

\* ------------------------------------------------------ create handler
\* return _response(...): the handler ends
Return(p, response) ==
  /\ pc' = [pc EXCEPT ![p] = "returned"]
  /\ resp' = [resp EXCEPT ![p] = response]

\* One pass of "for _ in range(5)" up to the put_item call: with k passes
\* done, either draw the next candidate or fall out of the loop (line 86).
NextAttempt(p, k) ==
  IF k < MAX_ATTEMPTS
  THEN \E draw \in RandomDraws :
         /\ short_code' = [short_code EXCEPT ![p] = generate_short_code(draw)]
         /\ attempt' = [attempt EXCEPT ![p] = k + 1]
         /\ pc' = [pc EXCEPT ![p] = "put"]
         /\ resp' = resp
  ELSE /\ Return(p, CreateResponse(500, ERR_EXHAUSTED, <<>>, <<>>))
       /\ short_code' = [short_code EXCEPT ![p] = <<>>]
       /\ attempt' = [attempt EXCEPT ![p] = 0]

\* Lines 33-51: parse and validate the body, then enter the loop.
\* Requests are numbered in the order they arrive.
CreateRequest(p, body) ==
  /\ pc[p] = "idle"
  /\ p > 1 => pc[p - 1] # "idle"
  /\ LET v == Validate(body)
     IN  CASE v.outcome = "raise" ->
                /\ pc' = [pc EXCEPT ![p] = "raised"]
                /\ UNCHANGED << long_url, short_code, attempt, resp, requested >>
           [] v.outcome = "return" ->
                /\ Return(p, CreateResponse(400, v.error, <<>>, <<>>))
                /\ UNCHANGED << long_url, short_code, attempt, requested >>
           [] v.outcome = "pass" ->
                /\ long_url' = [long_url EXCEPT ![p] = v.long_url]
                /\ requested' = [requested EXCEPT ![p] = body.doc.text]
                /\ NextAttempt(p, 0)
  /\ event' = body
  /\ UNCHANGED << store, now, raced, evicted, lastRedirect, lastError >>

\* an except clause that retries on every ClientError
AfterPut_retry_any(error) ==
  IF error = NoError THEN "return 201" ELSE "continue"

\* an except clause that swallows the error: "except ClientError: pass", the
\* handler going on to its 201 response
AfterPut_swallow_errors(error) ==
  IF error = CONDITIONAL_CHECK_FAILED THEN "continue" ELSE "return 201"

\* Lines 65-83: what the handler does with the outcome of put_item.
AfterPut(error) ==
  IF error = NoError THEN "return 201"
  ELSE IF error = CONDITIONAL_CHECK_FAILED THEN "continue"
  ELSE "return 500"

\* Lines 53-83: the conditional put and what the handler does with its result.
CreatePut(p) ==
  /\ pc[p] = "put"
  /\ \E tick \in 0..1, fault \in {NoError} \cup OtherStoreErrors :
       /\ tick > 0 => CanAdvance(tick)
       /\ now' = now + tick
       /\ LET item == NewItem(short_code[p], long_url[p], now, now + tick)
              r == put_item(store, item, fault)
          IN  /\ store' = r.table
              /\ lastError' = [lastError EXCEPT ![p] = r.error]
              /\ CASE AfterPut(r.error) = "return 201" ->
                        /\ Return(p, CreateResponse(201, NoError, short_code[p],
                                                    long_url[p]))
                        /\ raced' = (raced \ {p}) \cup
                             { q \in CreateReqs \ {p} :
                                 pc[q] = "put" /\ short_code[q] = short_code[p] }
                        /\ short_code' = [short_code EXCEPT ![p] = <<>>]
                        /\ attempt' = [attempt EXCEPT ![p] = 0]
                   [] AfterPut(r.error) = "continue" ->
                        /\ NextAttempt(p, attempt[p])
                        /\ raced' = raced \ {p}
                   [] AfterPut(r.error) = "return 500" ->
                        /\ Return(p, CreateResponse(500, ERR_DATABASE, <<>>, <<>>))
                        /\ raced' = raced \ {p}
                        /\ short_code' = [short_code EXCEPT ![p] = <<>>]
                        /\ attempt' = [attempt EXCEPT ![p] = 0]
  /\ long_url' = [long_url EXCEPT ![p] = IF pc'[p] = "put" THEN @ ELSE <<>>]
  /\ UNCHANGED << evicted, lastRedirect, event, requested >>

\* ---------------------------------------------------- redirect handler
\* (event.get("pathParameters") or {}).get("short_code", "").strip()
PathCode(path) == IF path.has THEN strip(path.short_code) ELSE <<>>

\* a Location header filled from the wrong attribute of the item
RedirectAnswer_location_code(tbl, path, fault) ==
  LET code == PathCode(path)
      result == get_item(tbl, code, fault)
  IN  IF code = <<>> THEN RedirectResponse(path, 400, <<>>, NoError, NO_CALLS)
      ELSE IF result.error # NoError
        THEN RedirectResponse(path, 500, <<>>, result.error, ONE_READ)
      ELSE IF ~result.found THEN RedirectResponse(path, 404, <<>>, NoError, ONE_READ)
      ELSE RedirectResponse(path, 301, tbl[code].short_code, NoError, ONE_READ)

\* an absent item reported as a failure of the store
RedirectAnswer_absent_is_500(tbl, path, fault) ==
  LET code == PathCode(path)
      result == get_item(tbl, code, fault)
  IN  IF code = <<>> THEN RedirectResponse(path, 400, <<>>, NoError, NO_CALLS)
      ELSE IF result.error # NoError
        THEN RedirectResponse(path, 500, <<>>, result.error, ONE_READ)
      ELSE IF ~result.found THEN RedirectResponse(path, 500, <<>>, NoError, ONE_READ)
      ELSE RedirectResponse(path, 301, tbl[code].long_url, NoError, ONE_READ)

\* Lines 16-50: the whole handler; it makes one get_item call.
RedirectAnswer(tbl, path, fault) ==
  LET code == PathCode(path)
      result == get_item(tbl, code, fault)
  IN  IF code = <<>> THEN RedirectResponse(path, 400, <<>>, NoError, NO_CALLS)
      ELSE IF result.error # NoError
        THEN RedirectResponse(path, 500, <<>>, result.error, ONE_READ)
      ELSE IF ~result.found THEN RedirectResponse(path, 404, <<>>, NoError, ONE_READ)
      ELSE RedirectResponse(path, 301, tbl[code].long_url, NoError, ONE_READ)

\* a handler that, on its way, deletes the record it finds past its expires_at
Redirect_purges_expired(path) ==
  /\ \E fault \in {NoError} \cup OtherStoreErrors :
       lastRedirect' = RedirectAnswer(store, path, fault)
  /\ LET code == PathCode(path)
     IN  store' = IF code \in DOMAIN store /\ now > store[code].expires_at
                  THEN [c \in DOMAIN store \ {code} |-> store[c]]
                  ELSE store
  /\ UNCHANGED << now, pc, long_url, short_code, attempt, resp, raced, evicted,
                  event, requested, lastError >>

\* one redirect request, from its arrival to its response
Redirect(path) ==
  /\ \E fault \in {NoError} \cup OtherStoreErrors :
       lastRedirect' = RedirectAnswer(store, path, fault)
  /\ UNCHANGED << store, now, pc, long_url, short_code, attempt, resp, raced, evicted,
                  event, requested, lastError >>

\* ------------------------------------------------------- environment
\* The clock advances: by a second, or by the whole time-to-live.
Tick(d) ==
  /\ CanAdvance(d)
  /\ now' = now + d
  /\ UNCHANGED << store, pc, long_url, short_code, attempt, resp, raced, evicted,
                  lastRedirect, event, requested, lastError >>

\* DynamoDB's time-to-live process deletes an item some time after the
\* clock has passed its expires_at attribute.
Expire(code) ==
  /\ code \in DOMAIN store
  /\ now > store[code].expires_at
  /\ store' = [c \in DOMAIN store \ {code} |-> store[c]]
  /\ evicted' = evicted \cup
       { p \in CreateReqs : resp[p].statusCode = 201 /\ resp[p].short_code = code }
  /\ UNCHANGED << now, pc, long_url, short_code, attempt, resp, raced,
                  lastRedirect, event, requested, lastError >>

\* the create handler and the environment of the table
NextCreate ==
  \/ \E p \in CreateReqs, body \in Bodies : CreateRequest(p, body)
  \/ \E p \in CreateReqs : CreatePut(p)
  \/ \E d \in {1, TTL_SECONDS} : Tick(d)
  \/ \E code \in Codes : Expire(code)

Next ==
  \/ NextCreate
  \/ \E path \in RedirectInputs : Redirect(path)

\* both handlers
Spec == Init /\ [][Next]_vars

\* the create handler alone: Redirect changes nothing that it reads
SpecCreate == Init /\ [][NextCreate]_vars

\* ------------------------------------------------------------ claims
\* request p calls put_item in this step
PutStep(p) ==
  /\ pc[p] = "put"
  /\ pc'[p] # "put" \/ attempt'[p] # attempt[p]

\* request p returns 201 in this step
Returns201(p) == resp[p].statusCode # 201 /\ resp'[p].statusCode = 201

\* the conditional check, not a store fault, answers p's put_item of this step
CheckAnswers(p) == PutStep(p) /\ lastError'[p] \notin OtherStoreErrors

\* C1 as stated: a request that held a candidate while a concurrent request
\* inserted that code (the record still being there, the store answering
\* with its conditional check) does not return 201 and goes on to a further
\* attempt.
C1_LoserAlwaysRetries ==
  [][\A q \in CreateReqs :
       (q \in raced /\ short_code[q] \in DOMAIN store /\ CheckAnswers(q))
         => /\ resp'[q].statusCode # 201
            /\ pc'[q] = "put"
            /\ attempt'[q] = attempt[q] + 1]_vars

\* C1 amended: among requests holding the same candidate while the code has
\* no record, a write the conditional check answers succeeds and leaves the
\* others holding a code that now has a record; while that record is in the
\* store each of the others gets the conditional-check failure, returns no
\* 201, leaves the store unchanged and either draws a new candidate for a
\* further attempt or, on its 5th attempt, returns 500.
C1_RaceHasOneWinner ==
  [][\A p \in CreateReqs :
       /\ (CheckAnswers(p) /\ short_code[p] \notin DOMAIN store)
            => /\ resp'[p].statusCode = 201
               /\ resp'[p].short_code = short_code[p]
               /\ \A q \in CreateReqs \ {p} :
                    (pc[q] = "put" /\ short_code[q] = short_code[p])
                      => /\ pc'[q] = "put"
                         /\ short_code'[q] = short_code[q]
                         /\ short_code'[q] \in DOMAIN store'
                         /\ resp'[q].statusCode # 201
       /\ (p \in raced /\ short_code[p] \in DOMAIN store /\ CheckAnswers(p))
            => /\ lastError'[p] = CONDITIONAL_CHECK_FAILED
               /\ resp'[p].statusCode # 201
               /\ store' = store
               /\ IF attempt[p] < 5
                  THEN /\ pc'[p] = "put"
                       /\ attempt'[p] = attempt[p] + 1
                       /\ short_code'[p] \in Codes
                  ELSE /\ pc'[p] = "returned"
                       /\ resp'[p].statusCode = 500]_vars

\* a request on its 5th attempt has lost the race for its candidate to a
\* concurrent request that returned 201 with it
C1_Witness ==
  \E p, q \in CreateReqs :
    /\ p # q
    /\ q \in raced /\ pc[q] = "put" /\ attempt[q] = 5
    /\ resp[p].statusCode = 201 /\ resp[p].short_code = short_code[q]
    /\ short_code[q] \in DOMAIN store

\* C2: a record in the store never changes: across every step a key that
\* stays keeps its item, a key that goes was past its expires_at, and a key
\* that comes is the candidate of a create request that returns 201 with it.
C2_RecordsImmutable ==
  [][\A c \in (DOMAIN store) \cup (DOMAIN store') :
       /\ (c \in DOMAIN store /\ c \in DOMAIN store') => store'[c] = store[c]
       /\ (c \in DOMAIN store /\ c \notin DOMAIN store')
            => /\ now > store[c].expires_at
               /\ \A p \in CreateReqs : ~PutStep(p)
       /\ (c \notin DOMAIN store /\ c \in DOMAIN store')
            => \E p \in CreateReqs :
                 PutStep(p) /\ short_code[p] = c /\ Returns201(p)]_vars

\* a create request was refused a code that has a record, and a record has
\* been removed by expiry
C2_Witness ==
  /\ \E p \in CreateReqs :
       /\ pc[p] = "put" /\ attempt[p] >= 2
       /\ lastError[p] = CONDITIONAL_CHECK_FAILED
  /\ evicted # {}
  /\ store # << >>

\* C3: a create request that returns 201 found no record under its code
\* right before the insert, and right after it the store maps the code to
\* the request's long_url.
C3_InsertedWhenAbsent ==
  [][\A p \in CreateReqs :
       Returns201(p)
         => LET c == resp'[p].short_code
            IN  /\ PutStep(p)
                /\ c = short_code[p]
                /\ c \notin DOMAIN store
                /\ c \in DOMAIN store'
                /\ store'[c].short_code = c
                /\ store'[c].long_url = long_url[p]
                /\ resp'[p].long_url = long_url[p]]_vars

\* two requests have returned 201 with different codes, and the store holds
\* a record for each with the long_url of its request
C3_Witness ==
  \E p, q \in CreateReqs :
    /\ p # q
    /\ resp[p].statusCode = 201 /\ resp[q].statusCode = 201
    /\ lastError[q] = NoError
    /\ resp[p].short_code # resp[q].short_code
    /\ {resp[p].short_code, resp[q].short_code} \subseteq DOMAIN store
    /\ store[resp[p].short_code].long_url = resp[p].long_url
    /\ store[resp[q].short_code].long_url = resp[q].long_url

\* C4 as stated: no two create requests that return 201 are given the same
\* short_code.
C4_NeverSameCode ==
  \A p, q \in CreateReqs :
    (p # q /\ resp[p].statusCode = 201 /\ resp[q].statusCode = 201)
      => resp[p].short_code # resp[q].short_code

\* C4 amended: two create requests that return 201 are given the same
\* short_code only if expiry has removed the record of one of them.
C4_SameCodeOnlyAfterExpiry ==
  \A p, q \in CreateReqs :
    (p # q /\ resp[p].statusCode = 201 /\ resp[q].statusCode = 201
       /\ resp[p].short_code = resp[q].short_code)
      => (p \in evicted \/ q \in evicted)

\* a code has been given out twice, the second time after the first record
\* had expired
C4_Witness ==
  \E p, q \in CreateReqs :
    /\ p # q
    /\ resp[p].statusCode = 201 /\ resp[q].statusCode = 201
    /\ resp[p].short_code = resp[q].short_code
    /\ p \in evicted /\ q \notin evicted
    /\ resp[q].short_code \in DOMAIN store

\* C5: every put_item call of a request is one of its attempts 1..5; the 5th
\* ends the request whatever the store answers, with 500 when the store
\* refuses it, and only a refused 5th attempt gives the exhaustion response.
C5_AtMostFiveAttempts ==
  [][\A p \in CreateReqs :
       /\ attempt'[p] <= 5
       /\ PutStep(p)
            => /\ attempt[p] \in 1..5
               /\ attempt[p] = 5
                    => /\ pc'[p] = "returned"
                       /\ lastError'[p] # NoError => resp'[p].statusCode = 500
               /\ resp'[p].error = ERR_EXHAUSTED
                    => /\ attempt[p] = 5
                       /\ lastError'[p] = CONDITIONAL_CHECK_FAILED
                       /\ resp'[p].statusCode = 500]_vars

\* a request has returned 500 because its 5 attempts were all refused
C5_Witness ==
  \E p \in CreateReqs :
    /\ pc[p] = "returned"
    /\ resp[p].statusCode = 500 /\ resp[p].error = ERR_EXHAUSTED
    /\ lastError[p] = CONDITIONAL_CHECK_FAILED

\* C6: a put_item call that fails with a store error other than the
\* conditional-check failure ends the request at once with 500 and leaves
\* the store as it was; a request goes on to another attempt only after a
\* conditional-check failure.
C6_OtherErrorsSurface ==
  [][\A p \in CreateReqs :
       PutStep(p)
         => /\ lastError'[p] \in OtherStoreErrors
                 => /\ pc'[p] = "returned"
                    /\ resp'[p].statusCode = 500
                    /\ resp'[p].error = ERR_DATABASE
                    /\ store' = store
            /\ pc'[p] = "put" => lastError'[p] = CONDITIONAL_CHECK_FAILED]_vars

\* a request has returned 500 for a store error while another request, after
\* a conditional-check failure, is on a later attempt
C6_Witness ==
  \E p, q \in CreateReqs :
    /\ lastError[p] \in OtherStoreErrors
    /\ pc[p] = "returned" /\ resp[p].error = ERR_DATABASE
    /\ pc[q] = "put" /\ attempt[q] >= 2

\* the redirect handler answers a request in this step
RedirectStep == lastRedirect' # lastRedirect

\* the redirect request of this step carries exactly this short_code
RedirectOn(code) == RedirectStep /\ lastRedirect'.path = PathParams(TRUE, code)

\* the get_item call of this step's redirect request does not fail
ReadSucceeds == lastRedirect'.readError = NoError

\* C7 as stated: a redirect on the short_code of a request that returned 201,
\* while that request's record is in the store and the read succeeds, answers
\* 301 with Location equal to the long_url the request carried.
C7_LocationIsRequestedUrl ==
  [][\A p \in CreateReqs :
       (resp[p].statusCode = 201 /\ p \notin evicted
          /\ RedirectOn(resp[p].short_code) /\ ReadSucceeds)
         => /\ lastRedirect'.statusCode = 301
            /\ lastRedirect'.Location = requested[p]]_vars

\* C7 amended: ... answers 301 with Location equal to the long_url the
\* request carried with its leading and trailing whitespace removed, which
\* is the long_url the 201 response reports.
C7_LocationIsStrippedUrl ==
  [][\A p \in CreateReqs :
       (resp[p].statusCode = 201 /\ p \notin evicted
          /\ RedirectOn(resp[p].short_code) /\ ReadSucceeds)
         => /\ lastRedirect'.statusCode = 301
            /\ lastRedirect'.Location = strip(requested[p])
            /\ lastRedirect'.Location = resp[p].long_url]_vars

\* two create requests have returned 201 with different long_urls, and a
\* redirect on the code of the first has answered 301 with its long_url
C7_Witness ==
  \E p, q \in CreateReqs :
    /\ p < q
    /\ resp[p].statusCode = 201 /\ resp[q].statusCode = 201
    /\ resp[p].long_url # resp[q].long_url
    /\ p \notin evicted
    /\ lastRedirect.path = PathParams(TRUE, resp[p].short_code)
    /\ lastRedirect.statusCode = 301
    /\ lastRedirect.Location = resp[p].long_url

\* C8 as stated: a redirect on a code whose record is past its expires_at
\* never answers 301.
C8_ExpiredNeverRedirects ==
  [][\A c \in DOMAIN store :
       (RedirectStep /\ PathCode(lastRedirect'.path) = c
          /\ now > store[c].expires_at)
         => lastRedirect'.statusCode # 301]_vars

\* a body that carries a valid long_url: a JSON object whose member long_url
\* is a string that, whitespace aside, is not empty and starts with http://
\* or https://
CarriesValidLongUrl(body) ==
  /\ body.raw = "json"
  /\ body.doc.type = "dict"
  /\ body.doc.has
  /\ body.doc.vtype = "str"
  /\ strip(body.doc.text) # <<>>
  /\ HasUrlPrefix(strip(body.doc.text))

\* C9 as stated: a create request whose body carries no valid long_url is
\* answered with status 400.
C9_InvalidIs400 ==
  [][\A p \in CreateReqs :
       (pc[p] = "idle" /\ pc'[p] # "idle" /\ ~CarriesValidLongUrl(event'))
         => (pc'[p] = "returned" /\ resp'[p].statusCode = 400)]_vars

\* C10 as stated: a redirect on a non-empty short_code that has no record,
\* the read not failing, answers 404.
C10_AbsentCodeIs404 ==
  [][(RedirectStep /\ lastRedirect'.path.has
        /\ lastRedirect'.path.short_code # <<>>
        /\ lastRedirect'.path.short_code \notin DOMAIN store
        /\ ReadSucceeds)
       => lastRedirect'.statusCode = 404]_vars

\* C10 amended: a redirect on a short_code that, with its leading and
\* trailing whitespace removed, is not empty and has no record, the read not
\* failing, answers 404.
C10_AbsentStrippedCodeIs404 ==
  [][(RedirectStep /\ PathCode(lastRedirect'.path) # <<>>
        /\ PathCode(lastRedirect'.path) \notin DOMAIN store
        /\ ReadSucceeds)
       => lastRedirect'.statusCode = 404]_vars

\* a redirect on the code of a record that expiry has removed has answered
\* 404
C10_Witness ==
  \E p \in evicted :
    /\ resp[p].short_code \notin DOMAIN store
    /\ lastRedirect.path = PathParams(TRUE, resp[p].short_code)
    /\ lastRedirect.statusCode = 404

\* C11: the redirect handler is read-only. Whatever the request and whatever
\* the outcome, which is one of 301, 400, 404 and 500, a redirect leaves the
\* store and every create request as they were; it makes no call on the table
\* when it answers 400 and otherwise exactly one call, the get_item read.
C11_RedirectIsReadOnly ==
  [][RedirectStep
       => /\ store' = store
          /\ UNCHANGED << now, pc, long_url, short_code, attempt, resp,
                          requested, lastError >>
          /\ lastRedirect'.statusCode \in {301, 400, 404, 500}
          /\ lastRedirect'.calls \in { << >>, << "get_item" >> }
          /\ lastRedirect'.calls = << >> <=> lastRedirect'.statusCode = 400]_vars

\* a redirect has read a record that is past its expires_at, has answered
\* 301 with it, and the record is still in the store
C11_Witness ==
  LET code == PathCode(lastRedirect.path)
  IN  /\ lastRedirect.statusCode = 301
      /\ lastRedirect.calls = << "get_item" >>
      /\ code \in DOMAIN store
      /\ now > store[code].expires_at
      /\ lastRedirect.Location = store[code].long_url

\* the character class [A-Za-z0-9]
ALNUM ==
  { "a","b","c","d","e","f","g","h","i","j","k","l","m","n","o","p","q","r",
    "s","t","u","v","w","x","y","z" }
  \cup
  { "A","B","C","D","E","F","G","H","I","J","K","L","M","N","O","P","Q","R",
    "S","T","U","V","W","X","Y","Z" }
  \cup { "0","1","2","3","4","5","6","7","8","9" }

\* exactly 8 characters, each of [A-Za-z0-9]
WellFormedCode(c) ==
  /\ Len(c) = 8
  /\ \A i \in 1..Len(c) : c[i] \in ALNUM

\* C12: a create request whose long_url passed validation is answered 201
\* with a short_code of exactly 8 characters of [A-Za-z0-9], or 500 with no
\* short_code. Every candidate a request holds and every key of the store
\* has that form, and so has the code the generator makes of any symbol the
\* random source can choose.
C12_CodeIsEightAlnum ==
  /\ \A p \in CreateReqs :
       /\ resp[p].statusCode = 201 => WellFormedCode(resp[p].short_code)
       /\ pc[p] = "put" => WellFormedCode(short_code[p])
       /\ (pc[p] = "returned" /\ requested[p] # <<>>)
            => \/ resp[p].statusCode = 201
               \/ resp[p].statusCode = 500 /\ resp[p].short_code = <<>>
  /\ \A c \in DOMAIN store : WellFormedCode(c) /\ store[c].short_code = c
  /\ \A i \in 1..Len(ALPHABET) :
       WellFormedCode(generate_short_code([j \in 1..CODE_LENGTH |-> i]))

\* a request with a padded long_url has returned 201 with a fresh code, and
\* another request with a valid long_url has returned 500 with no code
C12_Witness ==
  \E p, q \in CreateReqs :
    /\ p # q
    /\ requested[p] = URL_PADDED
    /\ resp[p].statusCode = 201
    /\ resp[p].short_code \in Codes \ {EARLIER_CODE}
    /\ requested[q] # <<>>
    /\ pc[q] = "returned" /\ resp[q].statusCode = 500
    /\ resp[q].short_code = <<>>

\* C13 as stated: every record in the store has expires_at equal to its
\* created_at plus 7,776,000 seconds, whatever the time of the request and
\* also when the clock advances while the request is handled.
C13_ExpiresExactly90Days ==
  \A c \in DOMAIN store :
    store[c].expires_at = store[c].created_at + 7776000

\* this step is a step of create request p
OwnStep(p) == pc'[p] # pc[p] \/ attempt'[p] # attempt[p]

\* C14: a step of a create request changes the store if and only if the
\* request returns 201 in it, and then it adds exactly one record, under the
\* request's code, and touches no other; a request that has returned or
\* raised takes no further step, so a request adds at most one record. The
\* 400 response is given in the request's first step, before any put_item
\* call, and the step of a 500 response, like every step before it, leaves
\* the store as it was.
C14_OneRecordIffCreated ==
  [][\A p \in CreateReqs :
       /\ pc[p] \in {"returned", "raised"}
            => pc'[p] = pc[p] /\ resp'[p] = resp[p]
       /\ OwnStep(p)
            => /\ store' # store <=> Returns201(p)
               /\ Returns201(p)
                    => /\ short_code[p] \notin DOMAIN store
                       /\ DOMAIN store' = DOMAIN store \cup {short_code[p]}
                       /\ \A c \in DOMAIN store : store'[c] = store[c]
               /\ resp'[p].statusCode = 400
                    => /\ pc[p] = "idle"
                       /\ attempt'[p] = 0
                       /\ lastError'[p] = NoError
                       /\ store' = store
               /\ resp'[p].statusCode = 500 => store' = store
               /\ pc'[p] = "raised" => store' = store]_vars

\* one request has been answered 400 and the other 201, and the store holds
\* the record of the second and no other
C14_Witness ==
  \E p, q \in CreateReqs :
    /\ resp[p].statusCode = 400
    /\ resp[q].statusCode = 201
    /\ DOMAIN store = {resp[q].short_code}
    /\ store[resp[q].short_code].long_url = resp[q].long_url
    /\ resp[q].short_code # EARLIER_CODE

\* the text begins with the 7 characters http:// or the 8 characters https://
BeginsWithHttp(s) ==
  \/ Len(s) >= 7 /\ SubSeq(s, 1, 7) = << "h","t","t","p",":","/","/" >>
  \/ Len(s) >= 8 /\ SubSeq(s, 1, 8) = << "h","t","t","p","s",":","/","/" >>

\* C15: in every reachable state every record of the store has a long_url
\* that is not empty and begins with http:// or https://, and so has the
\* long_url a create request holds while it writes; hence the Location of
\* every 301 of the redirect handler begins with one of the two.
C15_StoredUrlsHaveScheme ==
  /\ \A c \in DOMAIN store :
       store[c].long_url # <<>> /\ BeginsWithHttp(store[c].long_url)
  /\ \A p \in CreateReqs :
       /\ pc[p] = "put" => BeginsWithHttp(long_url[p])
       /\ resp[p].statusCode = 201 => BeginsWithHttp(resp[p].long_url)
  /\ lastRedirect.statusCode = 301
       => lastRedirect.Location # <<>> /\ BeginsWithHttp(lastRedirect.Location)

\* a long_url sent with whitespace around it has been stored without it, and
\* a redirect on its code has answered 301 with the stored text
C15_Witness ==
  \E p \in CreateReqs :
    /\ requested[p] = URL_PADDED
    /\ resp[p].statusCode = 201
    /\ resp[p].short_code \in DOMAIN store
    /\ store[resp[p].short_code].long_url = URL_HTTPS
    /\ PathCode(lastRedirect.path) = resp[p].short_code
    /\ lastRedirect.statusCode = 301
    /\ lastRedirect.Location = URL_HTTPS

====
